---- MODULE Spec2Model ----
(***************************************************************************)
(* Model of server/mongo/initialize/pre_populate.py (class PrePopulate):   *)
(* resolution of project / experiment selectors, the one-hop closure, the  *)
(* reset of experiment records, the archive writer and the archive reader. *)
(*                                                                         *)
(* Python values are modelled as follows.                                  *)
(*   - a string is a TLA+ string; a timestamp is a natural number;         *)
(*   - an optional value is a sequence of length at most one: <<>> is      *)
(*     None and <<v>> is the value v;                                      *)
(*   - a selector list argument is a sequence; <<>> stands for both None   *)
(*     and [], which the code never tells apart (`if projects:`,           *)
(*     `experiments or []`);                                               *)
(*   - a mongoengine collection is a set of documents with pairwise        *)
(*     distinct ids; a python set of documents is a set of documents       *)
(*     (mongoengine documents hash and compare by primary key, and all     *)
(*     copies of a document read during one export have equal fields).     *)
(***************************************************************************)
EXTENDS Integers, Sequences, FiniteSets, TLC

VARIABLES
    projectDb,    \* source database: the Project collection
    taskDb,       \* source database: the Task collection
    experiments,  \* argument of export_to_zip / _resolve_entities
    projects,     \* argument of export_to_zip / _resolve_entities
    pc,           \* position of the running entry point
    entities,     \* _export: the dict returned by _resolve_entities
    kinds,        \* _export: insertion order of the keys of `entities`
    todo,         \* _export: items of the current kind not yet written
    zfile,        \* the archive: [state, members]; a member is [name, lines]
    now,          \* last value returned by datetime.utcnow()
    user_id,      \* argument of import_from_zip
    dest,         \* destination database: [Project |-> ..., Task |-> ...]
    cursor,       \* _import: [member, line] being read
    cls,          \* _resolve_type: the collection queried
    ids,          \* _resolve_type: the selector list
    ret,          \* _resolve_type: its outcome
    task,         \* _cleanup_task: the record it is applied to
    applied       \* _cleanup_task: the times at which it has been applied

vars == << projectDb, taskDb, experiments, projects, pc, entities, kinds, todo,
           zfile, now, user_id, dest, cursor, cls, ids, ret, task, applied >>

-----------------------------------------------------------------------------
(* Bounds of the model *)

\* longest selector list handed to _resolve_type on its own
MaxSelectors == 2
\* longest selector list handed to export_to_zip
MaxExportSelectors == 1
\* latest value of the clock
MaxTime == 1

-----------------------------------------------------------------------------
(* Values *)

None == << >>
Some(v) == << v >>

Range(s) == { s[i] : i \in 1..Len(s) }

SeqsUpTo(S, n) == UNION { [1..k -> S] : k \in 0..n }

\* every order in which the elements of a finite set can be enumerated
Orderings(S) ==
    { s \in [1..Cardinality(S) -> S] : \A i, j \in 1..Cardinality(S) : s[i] = s[j] => i = j }

UniqueById(docs) == \A a, b \in docs : a.id = b.id => a = b

ProjectIds == { "p1", "p2" }
\* a project may carry a name that is another project's identifier
ProjectNames == { "alpha", "p2" }
TaskIds == { "t1", "t2" }
TaskNames == { "train" }

ProjectSelectors == ProjectIds \cup ProjectNames
TaskSelectors == TaskIds \cup TaskNames

-----------------------------------------------------------------------------
(* Documents *)

\* database.model.project.Project, as far as this module reads it
ProjectDoc(id, name) == [ id |-> id, name |-> name ]

\* database.model.task.task.Task, as far as this module reads or writes it
TaskDoc(id, name, project) ==
    [ id |-> id, name |-> name, project |-> project,
      completed |-> Some(0), started |-> Some(0),
      execution |-> Some([ model |-> Some("m1"), model_desc |-> Some("d1"),
                           model_labels |-> Some("l1") ]),
      output |-> Some([ model |-> Some("m2") ]),
      status |-> "completed", comment |-> "first run",
      created |-> 0, last_iteration |-> 7, last_update |-> 0,
      status_changed |-> 0, status_message |-> "done",
      status_reason |-> "finished", user |-> "u1" ]

\* the Project collections the model starts from
ProjectDbs ==
    { db \in SUBSET { ProjectDoc(i, n) : i \in ProjectIds, n \in ProjectNames } :
        UniqueById(db) }

\* the Task collections over a Project collection: an owning-project reference
\* is None or the identifier of a stored Project
TaskDbs(pdb) ==
    LET refs == { None } \cup { Some(p.id) : p \in pdb }
        docs == { TaskDoc(i, n, r) : i \in TaskIds, n \in TaskNames, r \in refs }
    IN  { db \in SUBSET docs : UniqueById(db) }

-----------------------------------------------------------------------------
(* _resolve_type *)

\* cls.objects(id__in=...)
objects_id_in(coll, idset) == { d \in coll : d.id \in idset }

\* cls.objects(name=...)
objects_name(coll, name) == { d \in coll : d.name = name }

\* resolve_missing with the ambiguity test left out: the first match is taken
RECURSIVE resolve_missing_first(_, _, _)
resolve_missing_first(coll, order, items) ==
    IF order = << >> THEN [ exit |-> 0, error |-> << >>, items |-> items ]
    ELSE LET results == objects_name(coll, Head(order))
         IN  IF results = {}
             THEN [ exit |-> 1, error |-> << "no match", Head(order) >>, items |-> << >> ]
             ELSE resolve_missing_first(coll, Tail(order),
                                        Append(items, CHOOSE r \in results : TRUE))

\* resolve_missing that passes over a name with no single match
RECURSIVE resolve_missing_skip(_, _, _)
resolve_missing_skip(coll, order, items) ==
    IF order = << >> THEN [ exit |-> 0, error |-> << >>, items |-> items ]
    ELSE LET results == objects_name(coll, Head(order))
         IN  resolve_missing_skip(coll, Tail(order),
                 IF Cardinality(results) = 1
                 THEN Append(items, CHOOSE r \in results : TRUE) ELSE items)

\* the loop over `missing`, taken in the order `order`
RECURSIVE resolve_missing(_, _, _)
resolve_missing(coll, order, items) ==
    IF order = << >> THEN [ exit |-> 0, error |-> << >>, items |-> items ]
    ELSE LET name_candidate == Head(order)
             results == objects_name(coll, name_candidate)
         IN  IF results = {}
             THEN [ exit |-> 1, error |-> << "no match", name_candidate >>, items |-> << >> ]
             ELSE IF Cardinality(results) > 1
             THEN [ exit |-> 1, error |-> << "more than one match", name_candidate >>,
                    items |-> << >> ]
             ELSE resolve_missing(coll, Tail(order),
                                  Append(items, CHOOSE r \in results : TRUE))

\* _resolve_type that skips a selector it cannot resolve instead of exiting
_resolve_type_skip(coll, sel, found, order) ==
    resolve_missing_skip(coll,
        SelectSeq(order, LAMBDA s : s \in Range(sel) \ { found[i].id : i \in 1..Len(found) }),
        found)

\* _resolve_type(cls, ids): `found` is the order in which the id query returns
\* its documents, `order` the iteration order of python's set(ids)
_resolve_type(coll, sel, found, order) ==
    LET idset == Range(sel)
        items == found
        resolved == { items[i].id : i \in 1..Len(items) }
        missing == idset \ resolved
    IN  resolve_missing(coll, SelectSeq(order, LAMBDA s : s \in missing), items)

\* the orders in which the id query of _resolve_type may return its documents
FoundOrders(coll, sel) == Orderings(objects_id_in(coll, Range(sel)))

\* the orders in which python may iterate set(ids)
SetOrders(sel) == Orderings(Range(sel))

-----------------------------------------------------------------------------
(* _resolve_entities *)

\* filter(None, ...) over identifiers: None and the empty string are dropped
truthy_ids(refs) == { r[1] : r \in { x \in refs : x # None /\ x # Some("") } }

\* project_experiments querying by the raw project selectors, not the
\* identifiers of the resolved projects
project_experiments_raw(entProjects, exps) ==
    LET objs == { o \in taskDb : o.project # None /\ o.project[1] \in Range(projects) }
    IN  { o \in objs : o.id \notin Range(exps) }

\* project_experiments whose query also matches experiments without a project
project_experiments_null(entProjects, exps) ==
    LET objs == { o \in taskDb :
                    o.project = None \/ o.project[1] \in { p.id : p \in entProjects } }
    IN  { o \in objs : o.id \notin Range(exps) }

\* lines 57-60: the experiments of the resolved projects, less those whose
\* identifier is in the experiment selector list
project_experiments(entProjects, exps) ==
    LET objs == { o \in taskDb :
                    o.project # None
                    /\ o.project[1] \in truthy_ids({ Some(p.id) : p \in entProjects }) }
    IN  { o \in objs : o.id \notin Range(exps) }

\* experiment_projects with the test of line 70 inverted
experiment_projects_in(entTasks, entProjects) ==
    LET objs == objects_id_in(projectDb, truthy_ids({ p.project : p \in entTasks }))
        project_ids == { p.id : p \in entProjects }
    IN  { o \in objs : o.id \in project_ids }

\* lines 66-70: the owning projects of the experiments, less those already held
experiment_projects(entTasks, entProjects) ==
    LET objs == objects_id_in(projectDb, truthy_ids({ p.project : p \in entTasks }))
        project_ids == { p.id : p \in entProjects }
    IN  { o \in objs : o.id \notin project_ids }

\* lines 53-60, from an empty defaultdict(set)
resolve_projects_branch(exps, projs, pfound, porder) ==
    IF projs = << >>
    THEN [ exit |-> 0, entities |-> [ Project |-> {}, Task |-> {} ], kinds |-> << >> ]
    ELSE LET r == _resolve_type(projectDb, projs, pfound, porder)
         IN  IF r.exit # 0
             THEN [ exit |-> r.exit, entities |-> [ Project |-> {}, Task |-> {} ],
                    kinds |-> << >> ]
             ELSE [ exit |-> 0,
                    entities |-> [ Project |-> Range(r.items),
                                   Task |-> project_experiments(Range(r.items), exps) ],
                    kinds |-> << "Project", "Task" >> ]

\* resolve_experiments_branch as an `elif` of the projects branch
resolve_experiments_branch_elif(st, exps, efound, eorder) ==
    IF st.exit # 0 \/ exps = << >> \/ st.kinds # << >> THEN st
    ELSE LET r == _resolve_type(taskDb, exps, efound, eorder)
             none == [ Project |-> {}, Task |-> {} ]
         IN  IF r.exit # 0
             THEN [ exit |-> r.exit, entities |-> none, kinds |-> << >> ]
             ELSE [ exit |-> 0,
                    entities |-> [ Project |-> experiment_projects(Range(r.items), {}),
                                   Task |-> Range(r.items) ],
                    kinds |-> << "Task", "Project" >> ]

\* lines 62-70, on the dict the first branch left
resolve_experiments_branch(st, exps, efound, eorder) ==
    IF st.exit # 0 \/ exps = << >> THEN st
    ELSE LET r == _resolve_type(taskDb, exps, efound, eorder)
         IN  IF r.exit # 0
             THEN [ exit |-> r.exit, entities |-> [ Project |-> {}, Task |-> {} ],
                    kinds |-> << >> ]
             ELSE LET tasks == st.entities.Task \cup Range(r.items)
                  IN  [ exit |-> 0,
                        entities |->
                            [ Project |-> st.entities.Project
                                          \cup experiment_projects(tasks, st.entities.Project),
                              Task |-> tasks ],
                        kinds |-> IF st.kinds = << >> THEN << "Task", "Project" >>
                                  ELSE st.kinds ]

\* _resolve_entities(experiments, projects): [exit, entities, kinds], where
\* exit # 0 is the process ending in exit(1) and kinds is the key order of
\* the returned dict
_resolve_entities(exps, projs, pfound, porder, efound, eorder) ==
    resolve_experiments_branch(resolve_projects_branch(exps, projs, pfound, porder),
                               exps, efound, eorder)

-----------------------------------------------------------------------------
(* _cleanup_task, _cleanup_entity *)

\* _cleanup_task with the first two assignments written as a shift:
\* started takes the old completed
_cleanup_task_swapped(t, utcnow) ==
    [ t EXCEPT
        !.completed = None,
        !.started = t.completed,
        !.execution = IF t.execution # None
                      THEN Some([ t.execution[1] EXCEPT !.model = None,
                                                        !.model_desc = None,
                                                        !.model_labels = None ])
                      ELSE t.execution,
        !.output = IF t.output # None
                   THEN Some([ t.output[1] EXCEPT !.model = None ])
                   ELSE t.output,
        !.status = "created",
        !.comment = "Auto generated by Allegro.ai",
        !.created = utcnow,
        !.last_iteration = 0,
        !.last_update = utcnow,
        !.status_changed = utcnow,
        !.status_message = "",
        !.status_reason = "",
        !.user = "" ]

\* _cleanup_task(task), with utcnow the value datetime.utcnow() returns
_cleanup_task(t, utcnow) ==
    [ t EXCEPT
        !.completed = None,
        !.started = None,
        !.execution = IF t.execution # None
                      THEN Some([ t.execution[1] EXCEPT !.model = None,
                                                        !.model_desc = None,
                                                        !.model_labels = None ])
                      ELSE t.execution,
        !.output = IF t.output # None
                   THEN Some([ t.output[1] EXCEPT !.model = None ])
                   ELSE t.output,
        !.status = "created",
        !.comment = "Auto generated by Allegro.ai",
        !.created = utcnow,
        !.last_iteration = 0,
        !.last_update = utcnow,
        !.status_changed = utcnow,
        !.status_message = "",
        !.status_reason = "",
        !.user = "" ]

\* _cleanup_entity(entity_cls, entity)
_cleanup_entity(entity_cls, entity, utcnow) ==
    IF entity_cls = "Task" THEN _cleanup_task(entity, utcnow) ELSE entity

-----------------------------------------------------------------------------
(* to_json / from_json of the document layer, and the archive text *)

Kinds == { "Project", "Task" }

\* cls_.__module__ as its dot-separated segments (the imports of lines 48-49)
ModuleOf(kind) ==
    IF kind = "Project" THEN << "database", "model", "project" >>
    ELSE << "database", "model", "task", "task" >>

\* fields that may hold None, and those holding an embedded document
OptionalFields == { "project", "completed", "started", "execution", "output",
                    "model", "model_desc", "model_labels" }
EmbeddedFields == { "execution", "output" }

FieldsOf(kind) ==
    IF kind = "Project" THEN DOMAIN ProjectDoc("", "")
    ELSE IF kind = "Task" THEN DOMAIN TaskDoc("", "", None)
    ELSE IF kind = "execution" THEN { "model", "model_desc", "model_labels" }
    ELSE { "model" }

db_field(f) == IF f = "id" THEN "_id" ELSE f
field_of(k) == IF k = "_id" THEN "id" ELSE k

\* to_mongo that leaves the owning-project reference out
RECURSIVE to_mongo_noref(_)
to_mongo_noref(doc) ==
    LET present == { f \in DOMAIN doc :
                       f # "project" /\ (f \notin OptionalFields \/ doc[f] # None) }
    IN  [ k \in { db_field(f) : f \in present } |->
            LET f == field_of(k)
            IN  IF f \in EmbeddedFields THEN to_mongo_noref(doc[f][1])
                ELSE IF f \in OptionalFields THEN doc[f][1]
                ELSE doc[f] ]

\* to_mongo: every field whose value is not None, under its database name
RECURSIVE to_mongo(_)
to_mongo(doc) ==
    LET present == { f \in DOMAIN doc : f \notin OptionalFields \/ doc[f] # None }
    IN  [ k \in { db_field(f) : f \in present } |->
            LET f == field_of(k)
            IN  IF f \in EmbeddedFields THEN to_mongo(doc[f][1])
                ELSE IF f \in OptionalFields THEN doc[f][1]
                ELSE doc[f] ]

\* item.to_json(): one JSON object, on one line
to_json(doc) == to_mongo(doc)

\* cls_.from_json(item): a document of the class, absent fields None
RECURSIVE from_son(_, _)
from_son(kind, son) ==
    [ f \in FieldsOf(kind) |->
        LET k == db_field(f)
        IN  IF f \in OptionalFields
            THEN IF k \notin DOMAIN son THEN None
                 ELSE IF f \in EmbeddedFields THEN Some(from_son(f, son[k]))
                 ELSE Some(son[k])
            ELSE son[k] ]

from_json(kind, item) == from_son(kind, item)

\* what is written to a member: a character, or the text of one JSON object
Chr(c) == [ chr |-> c, json |-> None ]
Json(j) == [ chr |-> "", json |-> Some(j) ]

\* f"{cls_.__module__}.{cls_.__name__}.json", as its dot-separated segments
member_filename(kind) == ModuleOf(kind) \o << kind, "json" >>

\* f.readlines(): the text cut after every newline
RECURSIVE readlines_from(_, _)
readlines_from(text, line) ==
    IF text = << >> THEN IF line = << >> THEN << >> ELSE << line >>
    ELSE IF Head(text) = Chr("\n")
         THEN << Append(line, Head(text)) >> \o readlines_from(Tail(text), << >>)
         ELSE readlines_from(Tail(text), Append(line, Head(text)))

readlines(text) == readlines_from(text, << >>)

RECURSIVE lstrip(_, _)
lstrip(line, chars) ==
    IF line # << >> /\ Head(line).json = None /\ Head(line).chr \in chars
    THEN lstrip(Tail(line), chars) ELSE line

RECURSIVE rstrip(_, _)
rstrip(line, chars) ==
    IF line # << >> /\ line[Len(line)].json = None /\ line[Len(line)].chr \in chars
    THEN rstrip(SubSeq(line, 1, Len(line) - 1), chars) ELSE line

Whitespace == { " ", "\n", "\t", "\r" }
strip(line) == rstrip(lstrip(line, Whitespace), Whitespace)

\* lines 140-147
clean_line(item) ==
    strip(rstrip(rstrip(lstrip(strip(item), { "[" }), { "]" }), { "," }))

\* lines 128-132: the class a member name designates
splitext(name) == SubSeq(name, 1, Len(name) - 1)
member_class(name) ==
    LET full_name == splitext(name)
        module_name == SubSeq(full_name, 1, Len(full_name) - 1)
        class_name == full_name[Len(full_name)]
    IN  CHOOSE k \in Kinds : ModuleOf(k) = module_name /\ k = class_name

\* hasattr(doc, "user")
hasattr_user(doc) == "user" \in DOMAIN doc

\* lines 150-152: the document built from one non-blank line
import_doc(kind, item, uid) ==
    LET doc == from_json(kind, item[1].json[1])
    IN  IF uid # None /\ hasattr_user(doc) THEN [ doc EXCEPT !.user = uid[1] ] ELSE doc

\* doc.save(): an identifier already stored is overwritten
save_upsert(coll, doc) ==
    [ ok |-> TRUE, coll |-> { d \in coll : d.id # doc.id } \cup { doc } ]

\* doc.save(force_insert=True): [ok, coll]; an identifier already stored
\* raises (ok = FALSE) and stores nothing
save_force_insert(coll, doc) ==
    IF \E d \in coll : d.id = doc.id
    THEN [ ok |-> FALSE, coll |-> coll ]
    ELSE [ ok |-> TRUE, coll |-> coll \cup { doc } ]

-----------------------------------------------------------------------------
(* State *)

Coll(kind) == IF kind = "Project" THEN projectDb ELSE taskDb

NoEntities == [ Project |-> {}, Task |-> {} ]
NoArchive == [ state |-> "none", members |-> << >> ]

exportVars == << entities, kinds, todo, zfile, now >>
importVars == << user_id, dest, cursor >>
dbVars == << projectDb, taskDb >>
argVars == << experiments, projects >>
resolveVars == << cls, ids, ret >>
cleanupVars == << task, applied >>

\* the values of the variables an entry point does not use
IdleExport ==
    /\ entities = NoEntities /\ kinds = << >> /\ todo = None
    /\ zfile = NoArchive /\ now = 0
IdleImport ==
    /\ user_id = None /\ dest = NoEntities /\ cursor = [ member |-> 1, line |-> 1 ]
IdleResolve == cls = "Project" /\ ids = << >> /\ ret = [ exit |-> 0, error |-> << >>, items |-> << >> ]
IdleCleanup == task = TaskDoc("t1", "train", None) /\ applied = << >>

\* the source databases
InitDb ==
    /\ projectDb \in ProjectDbs
    /\ taskDb \in TaskDbs(projectDb)

-----------------------------------------------------------------------------
(* export_to_zip *)

\* line 17: ZipFile(filename, mode="w") creates the archive, with no member
ExportOpen ==
    /\ pc = "export_to_zip"
    /\ zfile' = [ state |-> "open", members |-> << >> ]
    /\ pc' = "_resolve_entities"
    /\ UNCHANGED << dbVars, argVars, entities, kinds, todo, now, importVars,
                    resolveVars, cleanupVars >>

\* line 107: _resolve_entities as a whole; exit(1) unwinds through the `with`
\* of line 17, which closes the archive
ResolveEntities ==
    /\ pc = "_resolve_entities"
    /\ \E pfound \in FoundOrders(projectDb, projects), porder \in SetOrders(projects),
          efound \in FoundOrders(taskDb, experiments), eorder \in SetOrders(experiments) :
          LET r == _resolve_entities(experiments, projects, pfound, porder, efound, eorder)
          IN  IF r.exit # 0
              THEN /\ pc' = "exit"
                   /\ zfile' = [ zfile EXCEPT !.state = "closed" ]
                   /\ UNCHANGED << entities, kinds >>
              ELSE /\ pc' = "_export"
                   /\ entities' = r.entities
                   /\ kinds' = r.kinds
                   /\ UNCHANGED zfile
    /\ UNCHANGED << dbVars, argVars, todo, now, importVars, resolveVars, cleanupVars >>

\* lines 110-111: a kind with no item writes no member
ExportSkip ==
    /\ pc = "_export" /\ kinds # << >> /\ todo = None
    /\ entities[Head(kinds)] = {}
    /\ kinds' = Tail(kinds)
    /\ UNCHANGED << dbVars, argVars, pc, entities, todo, zfile, now, importVars,
                    resolveVars, cleanupVars >>

write(text) ==
    [ zfile EXCEPT !.members[Len(zfile.members)].text = @ \o text ]

\* lines 112-116: the member is opened and "[\n" written
ExportBegin ==
    /\ pc = "_export" /\ kinds # << >> /\ todo = None
    /\ entities[Head(kinds)] # {}
    /\ zfile' = [ zfile EXCEPT !.members =
                    Append(@, [ name |-> member_filename(Head(kinds)),
                                text |-> << Chr("["), Chr("\n") >> ]) ]
    /\ todo' = Some(entities[Head(kinds)])
    /\ UNCHANGED << dbVars, argVars, pc, entities, kinds, now, importVars,
                    resolveVars, cleanupVars >>

\* the values datetime.utcnow() may return next
Clock == { t \in { now, now + 1 } : t <= MaxTime }

\* lines 117-122: one item, in the iteration order of the set; the item is
\* reset in place, then written
ExportItem ==
    /\ pc = "_export" /\ todo # None /\ todo[1] # {}
    /\ \E item \in todo[1] :
        \E utcnow \in IF Head(kinds) = "Task" THEN Clock ELSE { now } :
          LET cleaned == _cleanup_entity(Head(kinds), item, utcnow)
              rest == todo[1] \ { item }
          IN  /\ entities' = [ entities EXCEPT ![Head(kinds)] = (@ \ { item }) \cup { cleaned } ]
              /\ zfile' = write(<< Json(to_json(cleaned)) >>
                                \o (IF rest # {} THEN << Chr(",") >> ELSE << >>)
                                \o << Chr("\n") >>)
              /\ todo' = Some(rest)
              /\ now' = utcnow
    /\ UNCHANGED << dbVars, argVars, pc, kinds, importVars, resolveVars, cleanupVars >>

\* line 123: "]\n" closes the member
ExportEnd ==
    /\ pc = "_export" /\ todo = Some({})
    /\ zfile' = write(<< Chr("]"), Chr("\n") >>)
    /\ todo' = None
    /\ kinds' = Tail(kinds)
    /\ UNCHANGED << dbVars, argVars, pc, entities, now, importVars, resolveVars,
                    cleanupVars >>

\* the loop of line 109 is over: the `with` of line 17 closes the archive
ExportClose ==
    /\ pc = "_export" /\ kinds = << >> /\ todo = None
    /\ zfile' = [ zfile EXCEPT !.state = "closed" ]
    /\ pc' = "exported"
    /\ UNCHANGED << dbVars, argVars, entities, kinds, todo, now, importVars,
                    resolveVars, cleanupVars >>

-----------------------------------------------------------------------------
(* import_from_zip *)

UserIds == { "u9" }

\* a document stored at the destination before the import
OldProject(id) == ProjectDoc(id, "old")
OldTask(id) == TaskDoc(id, "old", None)

\* the destination databases an import may find
DestDbs ==
    { NoEntities }
    \cup { [ NoEntities EXCEPT !.Project = { OldProject(i) } ] : i \in { "p1" } }
    \cup { [ NoEntities EXCEPT !.Task = { OldTask(i) } ] : i \in { "t2" } }

\* the calls of import_from_zip: a user override is tried on the empty
\* destination, the stored destinations without one
ImportArgs ==
    { [ user_id |-> None, dest |-> d ] : d \in DestDbs }
    \cup { [ user_id |-> Some(u), dest |-> NoEntities ] : u \in UserIds }

\* line 22: the archive a finished export wrote is opened for reading
ImportOpen ==
    /\ pc = "exported"
    /\ \E a \in ImportArgs :
        /\ user_id' = a.user_id
        /\ dest' = a.dest
    /\ cursor' = [ member |-> 1, line |-> 1 ]
    /\ pc' = "_import"
    /\ UNCHANGED << dbVars, argVars, exportVars, resolveVars, cleanupVars >>

MemberLines(m) == readlines(zfile.members[m].text)

\* lines 135-153: one line of the current member
ImportLine ==
    /\ pc = "_import"
    /\ cursor.member <= Len(zfile.members)
    /\ LET lines == MemberLines(cursor.member)
       IN  /\ cursor.line <= Len(lines)
           /\ LET cls_ == member_class(zfile.members[cursor.member].name)
                  item == clean_line(lines[cursor.line])
              IN  IF item = << >>
                  THEN /\ cursor' = [ cursor EXCEPT !.line = @ + 1 ]
                       /\ UNCHANGED << pc, dest >>
                  ELSE LET r == save_force_insert(dest[cls_],
                                                  import_doc(cls_, item, user_id))
                       IN  IF r.ok
                           THEN /\ dest' = [ dest EXCEPT ![cls_] = r.coll ]
                                /\ cursor' = [ cursor EXCEPT !.line = @ + 1 ]
                                /\ UNCHANGED pc
                           ELSE /\ pc' = "NotUniqueError"
                                /\ dest' = [ dest EXCEPT ![cls_] = r.coll ]
                                /\ UNCHANGED cursor
    /\ UNCHANGED << dbVars, argVars, exportVars, user_id, resolveVars, cleanupVars >>

\* line 127: the next member of reader.filelist
ImportNextMember ==
    /\ pc = "_import"
    /\ cursor.member <= Len(zfile.members)
    /\ cursor.line > Len(MemberLines(cursor.member))
    /\ cursor' = [ member |-> cursor.member + 1, line |-> 1 ]
    /\ UNCHANGED << dbVars, argVars, exportVars, pc, user_id, dest, resolveVars,
                    cleanupVars >>

\* reader.filelist is exhausted
ImportDone ==
    /\ pc = "_import"
    /\ cursor.member > Len(zfile.members)
    /\ pc' = "imported"
    /\ UNCHANGED << dbVars, argVars, exportVars, importVars, resolveVars, cleanupVars >>

-----------------------------------------------------------------------------
(* Export followed by import *)

Init ==
    /\ InitDb
    /\ projects \in SeqsUpTo(ProjectSelectors, MaxExportSelectors)
    /\ experiments \in SeqsUpTo(TaskSelectors, MaxExportSelectors)
    /\ pc = "export_to_zip"
    /\ IdleExport /\ IdleImport /\ IdleResolve /\ IdleCleanup

Next ==
    \/ ExportOpen
    \/ ResolveEntities
    \/ ExportSkip
    \/ ExportBegin
    \/ ExportItem
    \/ ExportEnd
    \/ ExportClose
    \/ ImportOpen
    \/ ImportLine
    \/ ImportNextMember
    \/ ImportDone

Spec == Init /\ [][Next]_vars

-----------------------------------------------------------------------------
(* _resolve_entities on its own, over longer selector lists *)

InitEntities ==
    /\ InitDb
    /\ projects \in SeqsUpTo(ProjectSelectors, MaxSelectors)
    /\ experiments \in SeqsUpTo(TaskSelectors, MaxSelectors)
    /\ pc = "export_to_zip"
    /\ IdleExport /\ IdleImport /\ IdleResolve /\ IdleCleanup

NextEntities == ExportOpen \/ ResolveEntities

SpecEntities == InitEntities /\ [][NextEntities]_vars

-----------------------------------------------------------------------------
(* _resolve_type on its own *)

InitResolve ==
    /\ InitDb
    /\ cls \in Kinds
    /\ ids \in SeqsUpTo(IF cls = "Project" THEN ProjectSelectors ELSE TaskSelectors,
                        MaxSelectors)
    /\ ret = [ exit |-> 0, error |-> << >>, items |-> << >> ]
    /\ pc = "_resolve_type"
    /\ projects = << >> /\ experiments = << >>
    /\ IdleExport /\ IdleImport /\ IdleCleanup

\* lines 29-42, for every order the query and the set may take
ResolveType ==
    /\ pc = "_resolve_type"
    /\ \E found \in FoundOrders(Coll(cls), ids), order \in SetOrders(ids) :
        /\ ret' = _resolve_type(Coll(cls), ids, found, order)
        /\ pc' = IF ret'.exit = 0 THEN "return" ELSE "exit"
    /\ UNCHANGED << dbVars, argVars, exportVars, importVars, cls, ids, cleanupVars >>

NextResolve == ResolveType

SpecResolve == InitResolve /\ [][NextResolve]_vars

-----------------------------------------------------------------------------
(* _cleanup_task on its own *)

\* the execution sub-documents a stored experiment may hold
Executions ==
    { None, Some([ model |-> None, model_desc |-> None, model_labels |-> None ]),
      Some([ model |-> Some("m1"), model_desc |-> Some("d1"),
             model_labels |-> Some("l1") ]) }
Outputs == { None, Some([ model |-> Some("m2") ]) }

\* the experiment records _cleanup_task is tried on
Tasks ==
    { [ TaskDoc("t1", "train", None) EXCEPT
          !.completed = c, !.started = c, !.execution = e, !.output = o,
          !.status = s, !.comment = m, !.last_iteration = i,
          !.status_message = IF s = "created" THEN "" ELSE "done",
          !.status_reason = IF s = "created" THEN "" ELSE "finished",
          !.user = u ] :
        c \in { None, Some(0) }, e \in Executions, o \in Outputs,
        s \in { "created", "completed" },
        m \in { "first run", "Auto generated by Allegro.ai" },
        i \in { 0, 7 }, u \in { "", "u1" } }

InitCleanup ==
    /\ task \in Tasks
    /\ applied = << >>
    /\ now = 0
    /\ pc = "_cleanup_task"
    /\ projectDb = {} /\ taskDb = {}
    /\ projects = << >> /\ experiments = << >>
    /\ entities = NoEntities /\ kinds = << >> /\ todo = None /\ zfile = NoArchive
    /\ IdleImport /\ IdleResolve

\* lines 78-95, applied to the record in place at the next clock value;
\* `applied` keeps the record as each application left it
CleanupTask ==
    /\ pc = "_cleanup_task"
    /\ Len(applied) < 2
    /\ \E utcnow \in Clock :
        /\ task' = _cleanup_task(task, utcnow)
        /\ now' = utcnow
    /\ applied' = Append(applied, task')
    /\ UNCHANGED << dbVars, argVars, pc, entities, kinds, todo, zfile, importVars,
                    resolveVars >>

NextCleanup == CleanupTask

SpecCleanup == InitCleanup /\ [][NextCleanup]_vars

-----------------------------------------------------------------------------
(* Properties *)

\* the documents of a collection that a selector list designates: by
\* identifier, or by name when no document has the selector as identifier
Designated(coll, sel) ==
    { d \in coll : \E s \in Range(sel) :
        \/ d.id = s
        \/ d.name = s /\ ~ \E x \in coll : x.id = s }

\* a selector that is no identifier and names no document, or several
Unresolvable(coll, sel) ==
    \E s \in Range(sel) :
        /\ ~ \E d \in coll : d.id = s
        /\ Cardinality({ d \in coll : d.name = s }) # 1

SeedProjects == Designated(projectDb, projects)
OwnedBySeed == { e \in taskDb : \E p \in SeedProjects : e.project = Some(p.id) }

\* _resolve_entities has returned
Resolved == pc = "_export"

\* C1: once _resolve_entities has returned, every experiment owned by a
\* resolved seed project is in the experiment set, unless its identifier is
\* in the experiment selector list.
C1_SeedChildrenIncluded ==
    Resolved =>
        \A p \in SeedProjects : \A e \in taskDb :
            (e.project = Some(p.id) /\ e.id \notin Range(experiments))
                => e \in entities.Task

\* a seed project resolved by name, with two children in the result
C1_Witness ==
    /\ Resolved
    /\ \E p \in SeedProjects :
        /\ p.id \notin Range(projects)
        /\ Cardinality({ e \in entities.Task : e.project = Some(p.id) }) = 2

C9_OneHopOnly ==
    Resolved =>
        /\ entities.Task \subseteq taskDb
        /\ entities.Project \subseteq projectDb
        /\ \A e \in entities.Task :
            e \in Designated(taskDb, experiments) \/ e \in OwnedBySeed
        /\ \A p \in entities.Project :
            p \in SeedProjects \/ \E e \in entities.Task : e.project = Some(p.id)

\* the database holds an experiment without a project and a project that is
\* neither selected nor owning a selected experiment, and both stay out
C9_Witness ==
    /\ Resolved
    /\ entities.Task # {} /\ entities.Project # {}
    /\ \E e \in taskDb \ entities.Task : e.project = None
    /\ projectDb \ entities.Project # {}

\* C10: the exclusion of line 60 never shows in the result: the experiment
\* set is the experiments owned by a seed project together with those the
\* experiment selectors designate, each once by identifier.
C10_ExclusionInvisible ==
    Resolved =>
        /\ entities.Task = OwnedBySeed \cup Designated(taskDb, experiments)
        /\ UniqueById(entities.Task)

\* a child of a seed project that line 60 excluded, selected by identifier
C10_Witness ==
    /\ Resolved
    /\ \E e \in OwnedBySeed : e.id \in Range(experiments) /\ e \in entities.Task

\* C4: _resolve_type exits, or returns exactly one document per distinct
\* selector: the returned list pairs off with the selectors so that each
\* document has its selector as identifier or, when no document has that
\* identifier, as name.
C4_OnePerSelector ==
    /\ pc \in { "_resolve_type", "return", "exit" }
    /\ pc = "return" =>
        /\ Len(ret.items) = Cardinality(Range(ids))
        /\ \E sel \in Orderings(Range(ids)) :
            \A i \in 1..Len(ret.items) :
                /\ ret.items[i] \in Coll(cls)
                /\ IF \E d \in Coll(cls) : d.id = sel[i]
                   THEN ret.items[i].id = sel[i]
                   ELSE ret.items[i].name = sel[i]

\* two selectors resolved, one by identifier and one by name, while a third
\* document carries the first selector as its name
C4_Witness ==
    /\ pc = "return"
    /\ Len(ret.items) = 2
    /\ \E i, j \in 1..2 :
        /\ ret.items[i].id \in Range(ids)
        /\ ret.items[j].id \notin Range(ids)
        /\ \E d \in Coll(cls) : d.name = ret.items[i].id

\* C5: the list _resolve_type returns holds no two documents with the same
\* identifier.
C5_NoDuplicateRecords ==
    pc = "return" =>
        \A i, j \in 1..Len(ret.items) : ret.items[i].id = ret.items[j].id => i = j

\* C3: an unresolvable project or experiment selector ends the export in
\* exit(1) with no archive member written, then or later; and no member is
\* written before _resolve_entities has returned.
C3_NoWriteOnFailure ==
    /\ []((Unresolvable(projectDb, projects) \/ Unresolvable(taskDb, experiments))
            => (/\ pc \in { "export_to_zip", "_resolve_entities", "exit" }
                /\ zfile.members = << >>))
    /\ [][(pc = "_resolve_entities"
           /\ (Unresolvable(projectDb, projects) \/ Unresolvable(taskDb, experiments)))
            => pc' = "exit"]_vars
    /\ [](zfile.members # << >>
            => pc \notin { "export_to_zip", "_resolve_entities", "exit" })

\* the export has ended in exit(1) on an experiment selector, after the
\* project selectors resolved
C3_Witness ==
    /\ pc = "exit"
    /\ projects # << >> /\ ~ Unresolvable(projectDb, projects)
    /\ Unresolvable(taskDb, experiments)
    /\ zfile = [ state |-> "closed", members |-> << >> ]

\* the document the reader builds from line i of member m
DocAt(m, i) ==
    import_doc(member_class(zfile.members[m].name), clean_line(MemberLines(m)[i]), user_id)

\* the documents of the lines of member m from line l on
LaterDocs(m, l) ==
    { DocAt(m, i) :
        i \in { j \in l..Len(MemberLines(m)) : clean_line(MemberLines(m)[j]) # << >> } }

\* the line under the cursor holds a document whose identifier is stored
Collides ==
    /\ pc = "_import"
    /\ cursor.member <= Len(zfile.members)
    /\ LET lines == MemberLines(cursor.member)
           cls_ == member_class(zfile.members[cursor.member].name)
       IN  /\ cursor.line <= Len(lines)
           /\ clean_line(lines[cursor.line]) # << >>
           /\ \E d \in dest[cls_] :
                d.id = import_doc(cls_, clean_line(lines[cursor.line]), user_id).id

\* C6: an insert whose identifier is already stored raises: the destination
\* is left as it was, the import stops there, and none of the documents that
\* follow, in that member or a later one, is ever inserted.
C6_CollisionAborts ==
    /\ [][Collides => (dest' = dest /\ pc' = "NotUniqueError")]_vars
    /\ [][pc = "NotUniqueError" => (dest' = dest /\ pc' = pc)]_vars
    /\ [](pc = "NotUniqueError" =>
            /\ \A n \in LaterDocs(cursor.member, cursor.line + 1) :
                ~ \E d \in dest[member_class(zfile.members[cursor.member].name)] :
                    d.id = n.id
            /\ \A m \in (cursor.member + 1)..Len(zfile.members) :
                \A n \in LaterDocs(m, 1) :
                    ~ \E d \in dest[member_class(zfile.members[m].name)] : d.id = n.id)

\* the import stopped on a document that another follows in its member,
\* with a further member behind, and the stored document is still the old one
C6_Witness ==
    /\ pc = "NotUniqueError"
    /\ LaterDocs(cursor.member, cursor.line + 1) # {}
    /\ cursor.member < Len(zfile.members)
    /\ dest \in DestDbs

\* the fields _cleanup_task assigns
SanitizedFields ==
    { "completed", "started", "execution", "output", "status", "comment",
      "created", "last_iteration", "last_update", "status_changed",
      "status_message", "status_reason", "user" }

\* documents that were at the destination before the import
Stored == UNION { d.Project \cup d.Task : d \in DestDbs }

\* an import without user override, into an empty destination, has finished
RoundTripDone ==
    /\ pc = "imported"
    /\ user_id = None
    /\ (dest.Project \cup dest.Task) \cap Stored = {}

\* C8: after export and import into an empty destination, the destination
\* holds the selection set, one document per identifier: the projects as
\* they are in the source, the experiments as the export wrote them, equal
\* to their source documents in every field _cleanup_task does not assign.
C8_RoundTrip ==
    RoundTripDone =>
        /\ dest.Project = entities.Project
        /\ dest.Project \subseteq projectDb
        /\ dest.Task = entities.Task
        /\ UniqueById(dest.Project) /\ UniqueById(dest.Task)
        /\ \A d \in dest.Task : \E o \in taskDb :
            /\ o.id = d.id
            /\ \A f \in (DOMAIN o) \ SanitizedFields : d[f] = o[f]

\* two projects and two experiments went through the archive, an owned
\* experiment among them, reset on the way
C8_Witness ==
    /\ RoundTripDone
    /\ Cardinality(dest.Project) = 2
    /\ Cardinality(dest.Task) = 2
    /\ \E d \in dest.Task : d.project # None /\ d \notin taskDb

\* C7 as stated: a second application of _cleanup_task, at any later time,
\* leaves the record as the first application left it.
C7_Idempotent ==
    Len(applied) = 2 => applied[2] = applied[1]

\* C7 as amended: a second application changes nothing but created,
\* last_update and status_changed, which all take the time of the second
\* application.
C7_IdempotentButTimestamps ==
    Len(applied) = 2 =>
        applied[2] = [ applied[1] EXCEPT !.created = now, !.last_update = now,
                                         !.status_changed = now ]

\* applied twice, at two different times, to a record that ran
C7_Witness ==
    /\ Len(applied) = 2
    /\ applied[2].created > applied[1].created
    /\ applied[2].execution # None

====
